---- MODULE Spec2Model ----
(***************************************************************************)
(* Model of the xray Container renderer (internal/xray/container.go) and   *)
(* of the custom view registry (internal/config/views.go).                 *)
(*                                                                         *)
(* Strings are sequences of one-character strings, so that FQN,            *)
(* Namespaced, HasPrefix, Split and the regular expression match are       *)
(* computed character by character.                                        *)
(***************************************************************************)
EXTENDS Integers, Sequences, FiniteSets, TLC

(***************************************************************************)
(* Bounds                                                                  *)
(***************************************************************************)
MaxEnv == 1

MaxEnvFrom == 1

MaxRenders == 2

(***************************************************************************)
(* String helpers (Go strings / path package)                              *)
(***************************************************************************)
Slash == "/"

RECURSIVE LastIndex(_, _)
LastIndex(s, c) ==
  IF Len(s) = 0 THEN 0
  ELSE IF s[Len(s)] = c THEN Len(s)
  ELSE LastIndex(SubSeq(s, 1, Len(s) - 1), c)

RECURSIVE TrimLeft(_, _)
TrimLeft(s, c) ==
  IF Len(s) > 0 /\ s[1] = c THEN TrimLeft(Tail(s), c) ELSE s

RECURSIVE TrimRight(_, _)
TrimRight(s, c) ==
  IF Len(s) > 0 /\ s[Len(s)] = c
  THEN TrimRight(SubSeq(s, 1, Len(s) - 1), c)
  ELSE s

Trim(s, c) == TrimRight(TrimLeft(s, c), c)

\* client.FQN: the name alone when the namespace is empty, else ns/name
FQN(ns, n) == IF ns = <<>> THEN n ELSE ns \o <<Slash>> \o n

\* client.Namespaced: path.Split at the last slash; the directory part is
\* trimmed of slashes.  Returns <<namespace, name>>.
Namespaced(p) ==
  LET i == LastIndex(p, Slash)
  IN  <<Trim(SubSeq(p, 1, i), Slash), SubSeq(p, i + 1, Len(p))>>

(***************************************************************************)
(* TreeNode                                                                *)
(***************************************************************************)
CoGVR == "containers"

SecGVR == "v1/secrets"

CmGVR == "v1/configmaps"

StatusKey == "status"

OkStatus == "ok"

MissingRefStatus == "noref"

EmptyExtras == [k \in {} |-> ""]

SetExtra(e, k, v) == [x \in (DOMAIN e) \cup {k} |-> IF x = k THEN v ELSE e[x]]

NewTreeNode(gvr, id) ==
  [GVR |-> gvr, ID |-> id, Children |-> <<>>, Extras |-> EmptyExtras]

\* TreeNode.Add: appends, no identity check
Add(t, c) == [t EXCEPT !.Children = Append(@, c)]

\* TreeNode.Find, as used for the dedup: TRUE iff t has a child (gvr, id)
Find(t, gvr, id) ==
  \E i \in 1..Len(t.Children) :
    t.Children[i].GVR = gvr /\ t.Children[i].ID = id

(***************************************************************************)
(* Inputs of Render                                                        *)
(***************************************************************************)
RefNames == {<<"a">>}

ContainerNames == {<<"c">>}

NsArgs == {<<"n">>, <<"m">>}

ParentIDs == {<<"n", "/", "p">>, <<"p">>}

Optionals == {"unset", "false", "true"}

\* the three results of Factory.Get: an error, a nil object, an object
GetResults == {"err", "nil", "obj"}

NilRef == [IsNil |-> TRUE]

Selectors ==
  {NilRef} \cup {[IsNil |-> FALSE, Name |-> n, Optional |-> o] :
                   n \in RefNames, o \in Optionals}

EnvVars ==
  {[HasValueFrom |-> FALSE]} \cup
  {[HasValueFrom |-> TRUE, SecretKeyRef |-> s, ConfigMapKeyRef |-> c] :
     s \in Selectors, c \in Selectors}

EnvFromSources ==
  {[ConfigMapRef |-> c, SecretRef |-> s] : c \in Selectors, s \in Selectors}

SeqsUpTo(S, n) == UNION {[1..k -> S] : k \in 0..n}

Containers ==
  {[Name |-> nm, Env |-> e, EnvFrom |-> ef] :
     nm \in ContainerNames,
     e \in SeqsUpTo(EnvVars, MaxEnv),
     ef \in SeqsUpTo(EnvFromSources, MaxEnvFrom)}

Objects ==
  {[Type |-> "ContainerRes", Container |-> c] : c \in Containers} \cup
  {[Type |-> "PodRes"]}

\* the objects handed to the calls that fail: one container with a reference
\* of each kind, and an object of another type
BadCallObjects ==
  {[Type |-> "PodRes"]} \cup
  {[Type |-> "ContainerRes", Container |-> c] :
     c \in {d \in Containers : Len(d.Env) = 1 /\ Len(d.EnvFrom) = 0 /\
                                d.Env[1].HasValueFrom /\
                                ~d.Env[1].SecretKeyRef.IsNil /\
                                d.Env[1].SecretKeyRef.Optional = "unset" /\
                                ~d.Env[1].ConfigMapKeyRef.IsNil /\
                                d.Env[1].ConfigMapKeyRef.Optional = "true"}}

Contexts == [HasFactory : BOOLEAN, HasParent : BOOLEAN]

(***************************************************************************)
(* State                                                                   *)
(***************************************************************************)
VARIABLES
  parent,      \* the TreeNode the context carries under KeyParent
  calls,       \* number of Render calls made
  lastIn,      \* what the last Render call was given
  lastErr,     \* what the last Render call returned
  lastGets,    \* the Factory.Get queries the last Render call issued
  lastRefs,    \* the (GVR, name) references of the last rendered container
  vNode,       \* validate: the node
  vOptional,   \* validate: the optional flag
  vRes,        \* validate: what Factory.Get returns
  vPc,         \* validate: "call" before, "done" after
  Views,       \* CustomView.Views
  listeners,   \* CustomView.listeners
  notified,    \* the ViewSettingsChanged calls of the last operation, in order
  lastOp,      \* the last operation on the CustomView and what it was given
  loadErr,     \* TRUE iff the last Load returned an error
  resetPc,     \* Reset in steps: "idle", or "deleting" inside its loop
  resetOld,    \* Reset in steps: the mapping when the running Reset began
  seen,        \* what the last range over Views by a reader found
  rPc,         \* Render in steps, per call: "idle", "refs", "add", "done"
  rMentions,   \* per call: the references of the container, in order
  rTodo,       \* per call: the references envRefs has still to visit
  rRoot,       \* per call: the container's node
  rGets,       \* per call: the Factory.Get queries issued so far
  rTmp         \* per call: the children parent.Add read before it appends

xrayVars == <<parent, calls, lastIn, lastErr, lastGets, lastRefs>>

validateVars == <<vNode, vOptional, vRes, vPc>>

viewVars == <<Views, listeners, notified, lastOp, loadErr>>

raceVars == <<resetPc, resetOld, seen>>

stepVars == <<rPc, rMentions, rTodo, rRoot, rGets, rTmp>>

vars == <<xrayVars, validateVars, viewVars, raceVars, stepVars>>

(***************************************************************************)
(* validate / addRef / envRefs                                             *)
(* A render in progress is a record [node, gets]: the container's node     *)
(* and the queries issued so far.  Factory.Get may answer anything, so     *)
(* the helpers return the set of records the call can end in.              *)
(***************************************************************************)
\* validate that marks every miss, optional or not
validateIgnoreOptional(n, optional, res) ==
  IF res = "err" \/ res = "nil"
  THEN [n EXCEPT !.Extras = SetExtra(@, StatusKey, MissingRefStatus)]
  ELSE [n EXCEPT !.Extras = SetExtra(@, StatusKey, OkStatus)]

\* validate(f, n, optional), res being what f.Get returned for (n.GVR, n.ID)
validate(n, optional, res) ==
  IF res = "err" \/ res = "nil"
  THEN IF optional = "unset" \/ optional # "true"
       THEN [n EXCEPT !.Extras = SetExtra(@, StatusKey, MissingRefStatus)]
       ELSE n
  ELSE [n EXCEPT !.Extras = SetExtra(@, StatusKey, OkStatus)]

\* addRef without the lookup before the insert
addRefNoFind(st, gvr, id, optional) ==
  {[node |-> Add(st.node, validate(NewTreeNode(gvr, id), optional, res)),
    gets |-> Append(st.gets, [GVR |-> gvr, ID |-> id])] :
     res \in GetResults}

\* addRef that attaches only the references it found
addRefSkipMissing(st, gvr, id, optional) ==
  IF ~Find(st.node, gvr, id)
  THEN {[node |-> IF res = "obj"
                  THEN Add(st.node, validate(NewTreeNode(gvr, id), optional, res))
                  ELSE st.node,
         gets |-> Append(st.gets, [GVR |-> gvr, ID |-> id])] :
          res \in GetResults}
  ELSE {st}

\* addRef that queries again, and sets the status again, at a later mention
addRefRevalidate(st, gvr, id, optional) ==
  IF ~Find(st.node, gvr, id)
  THEN {[node |-> Add(st.node, validate(NewTreeNode(gvr, id), optional, res)),
         gets |-> Append(st.gets, [GVR |-> gvr, ID |-> id])] :
          res \in GetResults}
  ELSE {[node |-> [st.node EXCEPT !.Children =
                     [i \in 1..Len(st.node.Children) |->
                        IF st.node.Children[i].GVR = gvr /\
                           st.node.Children[i].ID = id
                        THEN validate(st.node.Children[i], optional, res)
                        ELSE st.node.Children[i]]],
         gets |-> Append(st.gets, [GVR |-> gvr, ID |-> id])] :
          res \in GetResults}

addRef(st, gvr, id, optional) ==
  IF ~Find(st.node, gvr, id)
  THEN {[node |-> Add(st.node, validate(NewTreeNode(gvr, id), optional, res)),
         gets |-> Append(st.gets, [GVR |-> gvr, ID |-> id])] :
          res \in GetResults}
  ELSE {st}

addRefAll(S, gvr, id, optional) ==
  UNION {addRef(st, gvr, id, optional) : st \in S}

secretRefs(S, ns, ref) ==
  IF ref.IsNil THEN S
  ELSE addRefAll(S, SecGVR, FQN(ns, ref.Name), ref.Optional)

configMapRefs(S, ns, ref) ==
  IF ref.IsNil THEN S
  ELSE addRefAll(S, CmGVR, FQN(ns, ref.Name), ref.Optional)

RECURSIVE envLoop(_, _, _)
envLoop(S, ns, env) ==
  IF env = <<>> THEN S
  ELSE LET e == Head(env)
       IN  IF ~e.HasValueFrom
           THEN envLoop(S, ns, Tail(env))
           ELSE envLoop(configMapRefs(secretRefs(S, ns, e.SecretKeyRef),
                                      ns, e.ConfigMapKeyRef),
                        ns, Tail(env))

RECURSIVE envFromLoop(_, _, _)
envFromLoop(S, ns, envFrom) ==
  IF envFrom = <<>> THEN S
  ELSE LET e == Head(envFrom)
           S1 == IF ~e.ConfigMapRef.IsNil
                 THEN addRefAll(S, CmGVR, FQN(ns, e.ConfigMapRef.Name),
                                e.ConfigMapRef.Optional)
                 ELSE S
           S2 == IF ~e.SecretRef.IsNil
                 THEN addRefAll(S1, SecGVR, FQN(ns, e.SecretRef.Name),
                                e.SecretRef.Optional)
                 ELSE S1
       IN  envFromLoop(S2, ns, Tail(envFrom))

envRefs(root, ns, co) ==
  envFromLoop(envLoop({[node |-> root, gets |-> <<>>]}, ns, co.Env),
              ns, co.EnvFrom)

\* the (GVR, name) pairs a container refers to, read off the object itself
Refs(co) ==
  {<<SecGVR, co.Env[i].SecretKeyRef.Name>> :
     i \in {j \in 1..Len(co.Env) :
              co.Env[j].HasValueFrom /\ ~co.Env[j].SecretKeyRef.IsNil}} \cup
  {<<CmGVR, co.Env[i].ConfigMapKeyRef.Name>> :
     i \in {j \in 1..Len(co.Env) :
              co.Env[j].HasValueFrom /\ ~co.Env[j].ConfigMapKeyRef.IsNil}} \cup
  {<<CmGVR, co.EnvFrom[i].ConfigMapRef.Name>> :
     i \in {j \in 1..Len(co.EnvFrom) : ~co.EnvFrom[j].ConfigMapRef.IsNil}} \cup
  {<<SecGVR, co.EnvFrom[i].SecretRef.Name>> :
     i \in {j \in 1..Len(co.EnvFrom) : ~co.EnvFrom[j].SecretRef.IsNil}}

\* how many times a container mentions a reference
Mentions(co) ==
  Cardinality({j \in 1..Len(co.Env) :
                 co.Env[j].HasValueFrom /\ ~co.Env[j].SecretKeyRef.IsNil}) +
  Cardinality({j \in 1..Len(co.Env) :
                 co.Env[j].HasValueFrom /\ ~co.Env[j].ConfigMapKeyRef.IsNil}) +
  Cardinality({j \in 1..Len(co.EnvFrom) : ~co.EnvFrom[j].ConfigMapRef.IsNil}) +
  Cardinality({j \in 1..Len(co.EnvFrom) : ~co.EnvFrom[j].SecretRef.IsNil})

(***************************************************************************)
(* Container.Render                                                        *)
(***************************************************************************)
NoRefs == {}

RenderIn(ns, o, ctx) ==
  [Ns |-> ns, TypeOk |-> (o.Type = "ContainerRes"),
   HasFactory |-> ctx.HasFactory, HasParent |-> ctx.HasParent,
   Mentions |-> IF o.Type = "ContainerRes" THEN Mentions(o.Container) ELSE 0]

RenderFail(ns, o, ctx, err) ==
  /\ lastErr' = err
  /\ lastIn' = RenderIn(ns, o, ctx)
  /\ lastGets' = <<>>
  /\ lastRefs' = NoRefs
  /\ UNCHANGED parent

\* Render that resolves the references in the namespace argument
RenderNsArg(ns, o, ctx) ==
  /\ calls' = calls + 1
  /\ UNCHANGED <<validateVars, viewVars, raceVars, stepVars>>
  /\ IF o.Type # "ContainerRes"
     THEN RenderFail(ns, o, ctx, "expected ContainerRes")
     ELSE IF ~ctx.HasFactory
     THEN RenderFail(ns, o, ctx, "no factory found in context")
     ELSE IF ~ctx.HasParent
     THEN RenderFail(ns, o, ctx, "expecting a TreeNode")
     ELSE LET co == o.Container
              root == NewTreeNode(CoGVR, FQN(ns, co.Name))
          IN  \E st \in envRefs(root, ns, co) :
                /\ parent' = Add(parent, st.node)
                /\ lastGets' = st.gets
                /\ lastRefs' = Refs(co)
                /\ lastIn' = RenderIn(ns, o, ctx)
                /\ lastErr' = "none"

\* Render that goes on without a parent in the context
RenderNoParentCheck(ns, o, ctx) ==
  /\ calls' = calls + 1
  /\ UNCHANGED <<validateVars, viewVars, raceVars, stepVars>>
  /\ IF o.Type # "ContainerRes"
     THEN RenderFail(ns, o, ctx, "expected ContainerRes")
     ELSE IF ~ctx.HasFactory
     THEN RenderFail(ns, o, ctx, "no factory found in context")
     ELSE LET co == o.Container
              root == NewTreeNode(CoGVR, FQN(ns, co.Name))
              pns == Namespaced(parent.ID)[1]
          IN  \E st \in envRefs(root, pns, co) :
                /\ parent' = Add(parent, st.node)
                /\ lastGets' = st.gets
                /\ lastRefs' = Refs(co)
                /\ lastIn' = RenderIn(ns, o, ctx)
                /\ lastErr' = "none"

Render(ns, o, ctx) ==
  /\ calls' = calls + 1
  /\ UNCHANGED <<validateVars, viewVars, raceVars, stepVars>>
  /\ IF o.Type # "ContainerRes"
     THEN RenderFail(ns, o, ctx, "expected ContainerRes")
     ELSE IF ~ctx.HasFactory
     THEN RenderFail(ns, o, ctx, "no factory found in context")
     ELSE IF ~ctx.HasParent
     THEN RenderFail(ns, o, ctx, "expecting a TreeNode")
     ELSE LET co == o.Container
              root == NewTreeNode(CoGVR, FQN(ns, co.Name))
              pns == Namespaced(parent.ID)[1]
          IN  \E st \in envRefs(root, pns, co) :
                /\ parent' = Add(parent, st.node)
                /\ lastGets' = st.gets
                /\ lastRefs' = Refs(co)
                /\ lastIn' = RenderIn(ns, o, ctx)
                /\ lastErr' = "none"

\* a call with the object type, the Factory and the parent all in place
RenderCall(cs) ==
  \E ns \in NsArgs, c \in cs :
    Render(ns, [Type |-> "ContainerRes", Container |-> c],
           [HasFactory |-> TRUE, HasParent |-> TRUE])

\* a call that lacks one of them; Render returns before it reads the container
RenderBadCall ==
  \E ns \in NsArgs, o \in BadCallObjects, ctx \in Contexts :
    /\ o.Type # "ContainerRes" \/ ~ctx.HasFactory \/ ~ctx.HasParent
    /\ Render(ns, o, ctx)

\* one call, of any container
RenderFirst == calls = 0 /\ RenderCall(Containers)

RenderFirstBad == calls = 0 /\ RenderBadCall

\* the containers of the repeated calls: no env var, at most one envFrom source
EnvFromContainers == {c \in Containers : Len(c.Env) = 0 /\ Len(c.EnvFrom) <= 1}

\* up to MaxRenders calls on the same parent
RenderAgain == calls < MaxRenders /\ RenderCall(EnvFromContainers)

RenderAgainBad == calls < MaxRenders /\ RenderBadCall

(***************************************************************************)
(* Container.Render in steps: what a call does after its checks passed,    *)
(* one addRef at a time, then parent.Add.  Calls on the same parent are    *)
(* not ordered by any lock: parent.Add reads the children and then writes  *)
(* them back with the new node appended.                                   *)
(***************************************************************************)
MaxStepEnv == 1

\* the calls of Render that can be running at once on one parent
Procs == {1, 2}

\* a reference as envRefs hands it to addRef
RefMention(gvr, ns, ref) ==
  IF ref.IsNil THEN <<>>
  ELSE <<[GVR |-> gvr, ID |-> FQN(ns, ref.Name), Optional |-> ref.Optional]>>

RECURSIVE envMentions(_, _)
envMentions(ns, env) ==
  IF env = <<>> THEN <<>>
  ELSE LET e == Head(env)
       IN  IF ~e.HasValueFrom THEN envMentions(ns, Tail(env))
           ELSE RefMention(SecGVR, ns, e.SecretKeyRef) \o
                RefMention(CmGVR, ns, e.ConfigMapKeyRef) \o
                envMentions(ns, Tail(env))

RECURSIVE envFromMentions(_, _)
envFromMentions(ns, envFrom) ==
  IF envFrom = <<>> THEN <<>>
  ELSE LET e == Head(envFrom)
       IN  RefMention(CmGVR, ns, e.ConfigMapRef) \o
           RefMention(SecGVR, ns, e.SecretRef) \o
           envFromMentions(ns, Tail(envFrom))

\* the addRef calls of envRefs, in order
MentionList(ns, co) == envMentions(ns, co.Env) \o envFromMentions(ns, co.EnvFrom)

\* the containers of a call followed step by step
StepContainers ==
  {[Name |-> nm, Env |-> e, EnvFrom |-> ef] :
     nm \in ContainerNames,
     e \in SeqsUpTo(EnvVars, MaxStepEnv),
     ef \in SeqsUpTo(EnvFromSources, 1)}

\* the call creates the container's node and reads the parent's namespace
RenderBegin(p, ns, co) ==
  /\ rPc[p] = "idle"
  /\ rPc' = [rPc EXCEPT ![p] = "refs"]
  /\ rRoot' = [rRoot EXCEPT ![p] = NewTreeNode(CoGVR, FQN(ns, co.Name))]
  /\ rMentions' = [rMentions EXCEPT
                     ![p] = MentionList(Namespaced(parent.ID)[1], co)]
  /\ rTodo' = [rTodo EXCEPT ![p] = MentionList(Namespaced(parent.ID)[1], co)]
  /\ rGets' = [rGets EXCEPT ![p] = <<>>]
  /\ UNCHANGED <<rTmp, xrayVars, validateVars, viewVars, raceVars>>

\* the next addRef of envRefs
RenderRef(p) ==
  /\ rPc[p] = "refs"
  /\ rTodo[p] # <<>>
  /\ LET m == Head(rTodo[p])
     IN  \E st \in addRef([node |-> rRoot[p], gets |-> rGets[p]],
                          m.GVR, m.ID, m.Optional) :
           /\ rRoot' = [rRoot EXCEPT ![p] = st.node]
           /\ rGets' = [rGets EXCEPT ![p] = st.gets]
  /\ rTodo' = [rTodo EXCEPT ![p] = Tail(@)]
  /\ UNCHANGED <<rPc, rMentions, rTmp, xrayVars, validateVars, viewVars,
                 raceVars>>

\* parent.Add entered before envRefs is over
RenderAddLoadEarly(p) ==
  /\ rPc[p] = "refs"
  /\ rPc' = [rPc EXCEPT ![p] = "add"]
  /\ rTmp' = [rTmp EXCEPT ![p] = parent.Children]
  /\ UNCHANGED <<rMentions, rTodo, rRoot, rGets, xrayVars, validateVars,
                 viewVars, raceVars>>

\* envRefs has returned: parent.Add reads the parent's children
RenderAddLoad(p) ==
  /\ rPc[p] = "refs"
  /\ rTodo[p] = <<>>
  /\ rPc' = [rPc EXCEPT ![p] = "add"]
  /\ rTmp' = [rTmp EXCEPT ![p] = parent.Children]
  /\ UNCHANGED <<rMentions, rTodo, rRoot, rGets, xrayVars, validateVars,
                 viewVars, raceVars>>

\* parent.Add writes the children back with the container's node appended
RenderAddStore(p) ==
  /\ rPc[p] = "add"
  /\ parent' = Add([parent EXCEPT !.Children = rTmp[p]], rRoot[p])
  /\ rPc' = [rPc EXCEPT ![p] = "done"]
  /\ UNCHANGED <<rMentions, rTodo, rRoot, rGets, rTmp, calls, lastIn,
                 lastErr, lastGets, lastRefs, validateVars, viewVars,
                 raceVars>>

\* one call, of any container with up to MaxStepEnv env vars
StepBegin ==
  /\ rPc[1] = "idle"
  /\ \E ns \in NsArgs, co \in StepContainers : RenderBegin(1, ns, co)

StepRef == RenderRef(1)

StepAddLoad == RenderAddLoad(1)

StepAddStore == RenderAddStore(1)

\* two calls at once on the same parent
RaceBegin ==
  \E p \in Procs :
    /\ rPc[p] = "idle"
    /\ \E ns \in NsArgs, c \in EnvFromContainers : RenderBegin(p, ns, c)

RaceRef == \E p \in Procs : RenderRef(p)

RaceAddLoad == \E p \in Procs : RenderAddLoad(p)

RaceAddStore == \E p \in Procs : RenderAddStore(p)

(***************************************************************************)
(* validate on its own                                                     *)
(***************************************************************************)
ValidateIDs == {FQN(ns, n) : ns \in NsArgs \cup {<<>>}, n \in RefNames \cup {<<"b">>}}

Validate ==
  /\ vPc = "call"
  /\ vNode' = validate(vNode, vOptional, vRes)
  /\ vPc' = "done"
  /\ UNCHANGED <<vOptional, vRes, xrayVars, viewVars, raceVars, stepVars>>

(***************************************************************************)
(* Go strings and regexp, on sequences of characters                       *)
(***************************************************************************)
At == "@"

HasPrefix(str, prefix) ==
  Len(prefix) <= Len(str) /\ SubSeq(str, 1, Len(prefix)) = prefix

Contains(str, c) == \E i \in 1..Len(str) : str[i] = c

\* strings.Split on a one-character separator
RECURSIVE Split(_, _)
Split(str, c) ==
  IF ~Contains(str, c) THEN <<str>>
  ELSE LET i == CHOOSE j \in 1..Len(str) :
                  str[j] = c /\ \A h \in 1..(j - 1) : str[h] # c
       IN  <<SubSeq(str, 1, i - 1)>> \o Split(SubSeq(str, i + 1, Len(str)), c)

\* regexp.Compile on patterns of literals, "." and "*": a "*" with nothing
\* to repeat, a repeated "*" and an unclosed "(" do not compile
Compiles(re) ==
  /\ ~Contains(re, "(")
  /\ ~Contains(re, ")")
  /\ re = <<>> \/ re[1] # "*"
  /\ \A i \in 1..(Len(re) - 1) : ~(re[i] = "*" /\ re[i + 1] = "*")

RECURSIVE MatchHere(_, _)
MatchHere(re, text) ==
  IF re = <<>> THEN TRUE
  ELSE IF Len(re) >= 2 /\ re[2] = "*"
  THEN \E n \in 0..Len(text) :
         /\ \A i \in 1..n : re[1] = "." \/ re[1] = text[i]
         /\ MatchHere(SubSeq(re, 3, Len(re)), SubSeq(text, n + 1, Len(text)))
  ELSE /\ text # <<>>
       /\ re[1] = "." \/ re[1] = text[1]
       /\ MatchHere(Tail(re), Tail(text))

\* Regexp.MatchString: the pattern matches somewhere in the text
MatchString(re, text) ==
  \E i \in 1..(Len(text) + 1) : MatchHere(re, SubSeq(text, i, Len(text)))

(***************************************************************************)
(* CustomView                                                              *)
(***************************************************************************)
MaxViewKeys == 1

Settings ==
  {[Columns |-> <<"NAME">>, SortColumn |-> "NAME:asc"],
   [Columns |-> <<"AGE", "NAME">>, SortColumn |-> ""]}

ViewKeys == {<<"P">>, <<"P", "@", "k">>, <<"P", "s", "@", ".", "*">>}

Gvrs == {<<"P">>, <<"P", "s">>}

Namespaces == {<<>>, <<"k">>}

ListenerIds == {"l1", "l2"}

\* a ViewConfigListener: who it is and what GetNamespace returns
Listeners == [Id : ListenerIds, Ns : Namespaces]

EmptyMap == [k \in {} |-> 0]

\* the mappings a views file can hold
ViewMaps ==
  UNION {[ks -> Settings] :
           ks \in {x \in SUBSET ViewKeys : Cardinality(x) <= MaxViewKeys}}

MaxGetVSKeys == 2

\* view keys for the key matching: a bare kind, an exact key, patterns that
\* match and do not, a pattern that does not compile, a key with two "@",
\* and a pattern of a kind whose name extends another kind's
GetVSKeys ==
  {<<"P">>, <<"P", "@", "k">>, <<"P", "@", ".", "*">>, <<"P", "@", "j">>,
   <<"P", "@", "(">>, <<"P", "@", "k", "@", "k">>, <<"P", "s", "@", ".", "*">>}

GetVSMaps ==
  UNION {[ks -> Settings] :
           ks \in {x \in SUBSET GetVSKeys : Cardinality(x) <= MaxGetVSKeys}}

\* what os.ReadFile returns: an error, or bytes that yaml.Unmarshal rejects,
\* or bytes that hold a mapping, which the schema accepts or not
FileReads ==
  {[Kind |-> "err"], [Kind |-> "garbage"]} \cup
  {[Kind |-> "doc", SchemaValid |-> sv, Views |-> m] :
     sv \in BOOLEAN, m \in ViewMaps}

\* a nil *ViewSetting, and a pointer to a copy of a setting
NilVS == <<>>

Ptr(vs) == <<vs>>

Perms(S) ==
  {f \in [1..Cardinality(S) -> S] : \A i, j \in DOMAIN f : i # j => f[i] # f[j]}

\* the loop of getVS over the keys, in the order the map yields them
RECURSIVE scanKeys(_, _, _, _)
scanKeys(vs, keys, gvr, k) ==
  IF keys = <<>> THEN NilVS
  ELSE LET key == Head(keys)
       IN  IF ~HasPrefix(key, gvr) THEN scanKeys(vs, Tail(keys), gvr, k)
           ELSE IF key = k THEN Ptr(vs[key])
           ELSE IF Contains(key, At)
           THEN LET tt == Split(key, At)
                IN  IF Len(tt) # 2 THEN scanKeys(vs, Tail(keys), gvr, k)
                    ELSE IF Compiles(tt[2]) /\ MatchString(tt[2], k)
                    THEN Ptr(vs[key])
                    ELSE scanKeys(vs, Tail(keys), gvr, k)
           ELSE scanKeys(vs, Tail(keys), gvr, k)

\* getVS: every result the iteration order of the map allows
getVS(vs, gvr, ns) ==
  LET k == IF ns # <<>> THEN gvr \o <<At>> \o ns ELSE gvr
  IN  {scanKeys(vs, keys, gvr, k) : keys \in Perms(DOMAIN vs)}

RECURSIVE fireInOrder(_, _, _)
fireInOrder(vs, ls, order) ==
  IF order = <<>> THEN {<<>>}
  ELSE LET gvr == Head(order)
       IN  {<<[Gvr |-> gvr, Id |-> ls[gvr].Id, Ns |-> ls[gvr].Ns, VS |-> r]>>
              \o rest :
              r \in getVS(vs, gvr, ls[gvr].Ns),
              rest \in fireInOrder(vs, ls, Tail(order))}

\* fireConfigChanged: the sequences of ViewSettingsChanged calls it can make
fireConfigChanged(vs, ls) ==
  UNION {fireInOrder(vs, ls, order) : order \in Perms(DOMAIN ls)}

LoadOp(stat, read, dropped) ==
  [Op |-> "Load", Stat |-> stat, Read |-> read, Dropped |-> dropped]

NoOp(op) ==
  [Op |-> op, Stat |-> "Ok", Read |-> [Kind |-> "err"], Dropped |-> FALSE]

\* Load that returns any error of os.Stat, a missing file included
LoadStatStrict(stat, read) ==
  /\ UNCHANGED <<xrayVars, validateVars, listeners, raceVars, stepVars>>
  /\ IF stat # "Ok" \/ read.Kind = "err" \/ read.Kind = "garbage"
     THEN /\ loadErr' = TRUE
          /\ notified' = <<>>
          /\ lastOp' = LoadOp(stat, read, FALSE)
          /\ UNCHANGED Views
     ELSE /\ Views' = read.Views
          /\ notified' \in fireConfigChanged(Views', listeners)
          /\ lastOp' = LoadOp(stat, read, (DOMAIN Views) \ (DOMAIN read.Views) # {})
          /\ loadErr' = FALSE

\* Load that notifies the listeners before it replaces Views
LoadFireFirst(stat, read) ==
  /\ UNCHANGED <<xrayVars, validateVars, listeners, raceVars, stepVars>>
  /\ IF stat = "NotExist"
     THEN /\ loadErr' = FALSE
          /\ notified' = <<>>
          /\ lastOp' = LoadOp(stat, read, FALSE)
          /\ UNCHANGED Views
     ELSE IF read.Kind = "err" \/ read.Kind = "garbage"
     THEN /\ loadErr' = TRUE
          /\ notified' = <<>>
          /\ lastOp' = LoadOp(stat, read, FALSE)
          /\ UNCHANGED Views
     ELSE /\ notified' \in fireConfigChanged(Views, listeners)
          /\ Views' = read.Views
          /\ lastOp' = LoadOp(stat, read, (DOMAIN Views) \ (DOMAIN read.Views) # {})
          /\ loadErr' = FALSE

\* Load that applies what yaml.Unmarshal left in place when it failed
LoadKeepGoing(stat, read) ==
  /\ UNCHANGED <<xrayVars, validateVars, listeners, raceVars, stepVars>>
  /\ IF stat = "NotExist"
     THEN /\ loadErr' = FALSE
          /\ notified' = <<>>
          /\ lastOp' = LoadOp(stat, read, FALSE)
          /\ UNCHANGED Views
     ELSE IF read.Kind = "err"
     THEN /\ loadErr' = TRUE
          /\ notified' = <<>>
          /\ lastOp' = LoadOp(stat, read, FALSE)
          /\ UNCHANGED Views
     ELSE /\ Views' = IF read.Kind = "garbage" THEN EmptyMap ELSE read.Views
          /\ notified' \in fireConfigChanged(Views', listeners)
          /\ lastOp' = LoadOp(stat, read, FALSE)
          /\ loadErr' = (read.Kind = "garbage")

\* Load that gives up when the schema rejects the document
LoadSchemaStrict(stat, read) ==
  /\ UNCHANGED <<xrayVars, validateVars, listeners, raceVars, stepVars>>
  /\ IF stat = "NotExist"
     THEN /\ loadErr' = FALSE
          /\ notified' = <<>>
          /\ lastOp' = LoadOp(stat, read, FALSE)
          /\ UNCHANGED Views
     ELSE IF read.Kind = "err" \/ read.Kind = "garbage" \/ ~read.SchemaValid
     THEN /\ loadErr' = TRUE
          /\ notified' = <<>>
          /\ lastOp' = LoadOp(stat, read, FALSE)
          /\ UNCHANGED Views
     ELSE /\ Views' = read.Views
          /\ notified' \in fireConfigChanged(Views', listeners)
          /\ lastOp' = LoadOp(stat, read, (DOMAIN Views) \ (DOMAIN read.Views) # {})
          /\ loadErr' = FALSE

\* CustomView.Load(path): stat is what os.Stat(path) returns and read what
\* os.ReadFile(path) returns.  The schema validation only logs.
Load(stat, read) ==
  /\ UNCHANGED <<xrayVars, validateVars, listeners, raceVars, stepVars>>
  /\ IF stat = "NotExist"
     THEN /\ loadErr' = FALSE
          /\ notified' = <<>>
          /\ lastOp' = LoadOp(stat, read, FALSE)
          /\ UNCHANGED Views
     ELSE IF read.Kind = "err"
     THEN /\ loadErr' = TRUE
          /\ notified' = <<>>
          /\ lastOp' = LoadOp(stat, read, FALSE)
          /\ UNCHANGED Views
     ELSE IF read.Kind = "garbage"
     THEN /\ loadErr' = TRUE
          /\ notified' = <<>>
          /\ lastOp' = LoadOp(stat, read, FALSE)
          /\ UNCHANGED Views
     ELSE /\ Views' = read.Views
          /\ notified' \in fireConfigChanged(Views', listeners)
          /\ lastOp' = LoadOp(stat, read, (DOMAIN Views) \ (DOMAIN read.Views) # {})
          /\ loadErr' = FALSE

\* a path with no file: os.Stat and os.ReadFile both fail
LoadMissing == Load("NotExist", [Kind |-> "err"])

\* a path os.Stat cannot examine: os.ReadFile cannot open it either
LoadNoAccess == Load("StatErr", [Kind |-> "err"])

\* a file that is there, and whatever os.ReadFile makes of it
LoadFile == \E read \in FileReads : Load("Ok", read)

\* an operation on the listeners: was tells whether it replaced or removed one
ListenerOp(op, gvr, l, was) ==
  [Op |-> op, Stat |-> "Ok", Read |-> [Kind |-> "err"], Dropped |-> FALSE,
   Gvr |-> gvr, L |-> l, Was |-> was]

\* AddListener that keeps the listener already registered for the kind
AddListenerKeepFirst(gvr, l) ==
  /\ listeners' = [g \in (DOMAIN listeners) \cup {gvr} |->
                     IF g \in DOMAIN listeners THEN listeners[g] ELSE l]
  /\ notified' \in fireConfigChanged(Views, listeners')
  /\ lastOp' = ListenerOp("AddListener", gvr, l,
                          gvr \in DOMAIN listeners /\ listeners[gvr] # l)
  /\ UNCHANGED <<Views, loadErr, xrayVars, validateVars, raceVars, stepVars>>

\* AddListener that notifies the new listener alone
AddListenerNotifyNew(gvr, l) ==
  /\ listeners' = [g \in (DOMAIN listeners) \cup {gvr} |->
                     IF g = gvr THEN l ELSE listeners[g]]
  /\ notified' \in fireConfigChanged(Views, [g \in {gvr} |-> l])
  /\ lastOp' = ListenerOp("AddListener", gvr, l,
                          gvr \in DOMAIN listeners /\ listeners[gvr] # l)
  /\ UNCHANGED <<Views, loadErr, xrayVars, validateVars, raceVars, stepVars>>

AddListener(gvr, l) ==
  /\ listeners' = [g \in (DOMAIN listeners) \cup {gvr} |->
                     IF g = gvr THEN l ELSE listeners[g]]
  /\ notified' \in fireConfigChanged(Views, listeners')
  /\ lastOp' = ListenerOp("AddListener", gvr, l,
                          gvr \in DOMAIN listeners /\ listeners[gvr] # l)
  /\ UNCHANGED <<Views, loadErr, xrayVars, validateVars, raceVars, stepVars>>

AddListenerCall == \E gvr \in Gvrs, l \in Listeners : AddListener(gvr, l)

NoListener == [Id |-> "", Ns |-> <<>>]

\* RemoveListener that leaves the listener registered
RemoveListenerKeep(gvr) ==
  /\ listeners' = listeners
  /\ notified' = <<>>
  /\ lastOp' = ListenerOp("RemoveListener", gvr, NoListener,
                          gvr \in DOMAIN listeners)
  /\ UNCHANGED <<Views, loadErr, xrayVars, validateVars, raceVars, stepVars>>

RemoveListener(gvr) ==
  /\ listeners' = [g \in (DOMAIN listeners) \ {gvr} |-> listeners[g]]
  /\ notified' = <<>>
  /\ lastOp' = ListenerOp("RemoveListener", gvr, NoListener,
                          gvr \in DOMAIN listeners)
  /\ UNCHANGED <<Views, loadErr, xrayVars, validateVars, raceVars, stepVars>>

RemoveListenerCall == \E gvr \in Gvrs : RemoveListener(gvr)

Reset ==
  /\ Views' = [k \in (DOMAIN Views) \ (DOMAIN Views) |-> Views[k]]
  /\ notified' = <<>>
  /\ lastOp' = NoOp("Reset")
  /\ UNCHANGED <<listeners, loadErr, xrayVars, validateVars, raceVars, stepVars>>

(***************************************************************************)
(* Reset and getVS on two goroutines.  CustomView has no lock: Reset       *)
(* deletes the keys of the mapping one by one while getVS may range over   *)
(* the same mapping.  The Go runtime may stop the program when it detects  *)
(* the concurrent iteration and write; otherwise the reader goes on with   *)
(* what is left of the mapping.                                            *)
(***************************************************************************)
MaxResetKeys == 2

\* the mappings Views can hold when Reset is called
RaceMaps ==
  UNION {[ks -> Settings] :
           ks \in {x \in SUBSET ViewKeys : Cardinality(x) <= MaxResetKeys}}

\* Reset enters its loop over the keys
ResetBegin ==
  /\ ~seen.Fatal
  /\ resetPc = "idle"
  /\ resetPc' = "deleting"
  /\ resetOld' = Views
  /\ UNCHANGED <<seen, viewVars, xrayVars, validateVars, stepVars>>

\* one delete(v.Views, k) of the loop
ResetDelete ==
  /\ ~seen.Fatal
  /\ resetPc = "deleting"
  /\ DOMAIN Views # {}
  /\ \E k \in DOMAIN Views :
       Views' = [x \in (DOMAIN Views) \ {k} |-> Views[x]]
  /\ UNCHANGED <<listeners, notified, lastOp, loadErr, raceVars,
                 xrayVars, validateVars, stepVars>>

\* the loop is over: Reset returns
ResetEnd ==
  /\ ~seen.Fatal
  /\ resetPc = "deleting"
  /\ DOMAIN Views = {}
  /\ resetPc' = "idle"
  /\ notified' = <<>>
  /\ lastOp' = NoOp("Reset")
  /\ UNCHANGED <<Views, listeners, loadErr, resetOld, seen,
                 xrayVars, validateVars, stepVars>>

\* getVS on another goroutine ranges over v.Views
GetVSRange ==
  /\ ~seen.Fatal
  /\ \E fatal \in (IF resetPc = "deleting" /\ DOMAIN Views # {}
                   THEN BOOLEAN ELSE {FALSE}) :
       seen' = [Map |-> Views, During |-> resetPc, Old |-> resetOld,
                Fatal |-> fatal]
  /\ UNCHANGED <<resetPc, resetOld, viewVars, xrayVars, validateVars,
                 stepVars>>

(***************************************************************************)
(* Specifications                                                          *)
(***************************************************************************)
InitXrayVars ==
  /\ parent \in {NewTreeNode("v1/pods", id) : id \in ParentIDs}
  /\ calls = 0
  /\ lastIn = [Ns |-> <<>>, TypeOk |-> TRUE, HasFactory |-> TRUE,
               HasParent |-> TRUE, Mentions |-> 0]
  /\ lastErr = "none"
  /\ lastGets = <<>>
  /\ lastRefs = NoRefs

IdleValidateVars ==
  /\ vNode = NewTreeNode(SecGVR, <<"a">>)
  /\ vOptional = "unset"
  /\ vRes = "obj"
  /\ vPc = "done"

\* NewCustomView
InitViewVars ==
  /\ Views = EmptyMap
  /\ listeners = EmptyMap
  /\ notified = <<>>
  /\ lastOp = NoOp("NewCustomView")
  /\ loadErr = FALSE

\* no Reset and no reader running
IdleRaceVars ==
  /\ resetPc = "idle"
  /\ resetOld = EmptyMap
  /\ seen = [Map |-> EmptyMap, During |-> "idle", Old |-> EmptyMap,
             Fatal |-> FALSE]

\* no Render running
IdleStepVars ==
  /\ rPc = [p \in Procs |-> "idle"]
  /\ rMentions = [p \in Procs |-> <<>>]
  /\ rTodo = [p \in Procs |-> <<>>]
  /\ rRoot = [p \in Procs |-> NewTreeNode(CoGVR, <<>>)]
  /\ rGets = [p \in Procs |-> <<>>]
  /\ rTmp = [p \in Procs |-> <<>>]

InitXray ==
  /\ InitXrayVars
  /\ IdleValidateVars
  /\ InitViewVars
  /\ IdleRaceVars
  /\ IdleStepVars

NextRenderOnce == RenderFirst \/ RenderFirstBad

SpecRenderOnce == InitXray /\ [][NextRenderOnce]_vars

NextRenderSteps ==
  \/ StepBegin
  \/ StepRef
  \/ StepAddLoad
  \/ StepAddStore

SpecRenderSteps == InitXray /\ [][NextRenderSteps]_vars

NextRenderRace ==
  \/ RaceBegin
  \/ RaceRef
  \/ RaceAddLoad
  \/ RaceAddStore

SpecRenderRace == InitXray /\ [][NextRenderRace]_vars

NextRenderMany == RenderAgain \/ RenderAgainBad

SpecRenderMany == InitXray /\ [][NextRenderMany]_vars

InitValidate ==
  /\ InitXrayVars
  /\ InitViewVars
  /\ IdleRaceVars
  /\ IdleStepVars
  /\ vNode \in {NewTreeNode(gvr, id) : gvr \in {SecGVR, CmGVR}, id \in ValidateIDs}
  /\ vOptional \in Optionals
  /\ vRes \in GetResults
  /\ vPc = "call"

NextValidate == Validate

SpecValidate == InitValidate /\ [][NextValidate]_vars

InitViews ==
  /\ InitViewVars
  /\ IdleValidateVars
  /\ IdleRaceVars
  /\ IdleStepVars
  /\ parent = NewTreeNode("v1/pods", <<"p">>)
  /\ calls = 0
  /\ lastIn = [Ns |-> <<>>, TypeOk |-> TRUE, HasFactory |-> TRUE,
               HasParent |-> TRUE, Mentions |-> 0]
  /\ lastErr = "none"
  /\ lastGets = <<>>
  /\ lastRefs = NoRefs

NextViews ==
  \/ LoadMissing
  \/ LoadNoAccess
  \/ LoadFile
  \/ AddListenerCall
  \/ RemoveListenerCall
  \/ Reset

SpecViews == InitViews /\ [][NextViews]_vars

\* key matching: a registry as a successful Load left it, read by the
\* notifications of the listeners that register
InitGetVS ==
  /\ Views \in GetVSMaps
  /\ listeners = EmptyMap
  /\ notified = <<>>
  /\ lastOp = LoadOp("Ok", [Kind |-> "doc", SchemaValid |-> TRUE,
                            Views |-> Views], FALSE)
  /\ loadErr = FALSE
  /\ IdleValidateVars
  /\ IdleRaceVars
  /\ IdleStepVars
  /\ parent = NewTreeNode("v1/pods", <<"p">>)
  /\ calls = 0
  /\ lastIn = [Ns |-> <<>>, TypeOk |-> TRUE, HasFactory |-> TRUE,
               HasParent |-> TRUE, Mentions |-> 0]
  /\ lastErr = "none"
  /\ lastGets = <<>>
  /\ lastRefs = NoRefs

\* Reset in steps, with a reader
InitReset ==
  /\ Views \in RaceMaps
  /\ listeners = EmptyMap
  /\ notified = <<>>
  /\ lastOp = LoadOp("Ok", [Kind |-> "doc", SchemaValid |-> TRUE,
                            Views |-> Views], FALSE)
  /\ loadErr = FALSE
  /\ IdleValidateVars
  /\ IdleRaceVars
  /\ IdleStepVars
  /\ parent = NewTreeNode("v1/pods", <<"p">>)
  /\ calls = 0
  /\ lastIn = [Ns |-> <<>>, TypeOk |-> TRUE, HasFactory |-> TRUE,
               HasParent |-> TRUE, Mentions |-> 0]
  /\ lastErr = "none"
  /\ lastGets = <<>>
  /\ lastRefs = NoRefs

NextReset ==
  \/ ResetBegin
  \/ ResetDelete
  \/ ResetEnd
  \/ GetVSRange

SpecReset == InitReset /\ [][NextReset]_vars

NextGetVS ==
  \/ AddListenerCall
  \/ RemoveListenerCall

SpecGetVS == InitGetVS /\ [][NextGetVS]_vars

(***************************************************************************)
(* Properties of Container.Render                                          *)
(***************************************************************************)
NoDupChildren(t) ==
  \A i, j \in 1..Len(t.Children) :
    i # j => ~(t.Children[i].GVR = t.Children[j].GVR /\
               t.Children[i].ID = t.Children[j].ID)

ChildIds(t) == {<<t.Children[i].GVR, t.Children[i].ID>> : i \in 1..Len(t.Children)}

Rendered == calls > 0 /\ lastErr = "none" /\ Len(parent.Children) > 0

\* the node of the container rendered last
LastRoot == parent.Children[Len(parent.Children)]

\* C1: after a successful Render the container's node has no two children
\* with the same (Kind, ID), and has exactly one child per distinct
\* reference of the container, however often the reference is mentioned.
C1_OneChildPerRef ==
  Rendered =>
    /\ NoDupChildren(LastRoot)
    /\ {<<c[1], Namespaced(c[2])[2]>> : c \in ChildIds(LastRoot)} = lastRefs
    /\ Len(LastRoot.Children) = Cardinality(lastRefs)

\* a container that mentions its references more often than it has references
C1_Witness ==
  /\ Rendered
  /\ Cardinality(lastRefs) = 2
  /\ lastIn.Mentions > 2
  /\ Len(LastRoot.Children) = 2

\* C2: after any sequence of successful Render calls on the same parent, no
\* two children of the parent share (Kind, ID).
C2_ParentNoDup == NoDupChildren(parent)

\* C3: validate leaves status ok when Get returns an object; noref when Get
\* returns an error or nil and optional is unset or false; and no status key
\* when Get returns an error or nil and optional is true.
C3_ValidateStatus ==
  vPc = "done" =>
    /\ vRes = "obj" =>
         StatusKey \in DOMAIN vNode.Extras /\ vNode.Extras[StatusKey] = OkStatus
    /\ vRes \in {"err", "nil"} /\ vOptional \in {"unset", "false"} =>
         StatusKey \in DOMAIN vNode.Extras /\
         vNode.Extras[StatusKey] = MissingRefStatus
    /\ vRes \in {"err", "nil"} /\ vOptional = "true" =>
         StatusKey \notin DOMAIN vNode.Extras

C3_Witness ==
  /\ vPc = "done"
  /\ vRes = "nil"
  /\ vOptional = "true"
  /\ StatusKey \notin DOMAIN vNode.Extras

\* C4: with the expected object type, a Factory and a parent in the context,
\* Render returns no error whatever the Factory answers, and every reference
\* of the container is a child of the container's node.
C4_NoErrorAllAttached ==
  calls > 0 /\ lastIn.TypeOk /\ lastIn.HasFactory /\ lastIn.HasParent =>
    /\ lastErr = "none"
    /\ Len(parent.Children) > 0
    /\ lastRefs \subseteq {<<c[1], Namespaced(c[2])[2]>> : c \in ChildIds(LastRoot)}

\* a required reference and an optional reference, both of which failed
C4_Witness ==
  /\ Rendered
  /\ \E i, j \in 1..Len(LastRoot.Children) :
       /\ StatusKey \notin DOMAIN LastRoot.Children[i].Extras
       /\ StatusKey \in DOMAIN LastRoot.Children[j].Extras
       /\ LastRoot.Children[j].Extras[StatusKey] = MissingRefStatus

\* C5: a Render given an object of another type, or a context without a
\* Factory or without a parent, returns an error, leaves the parent's
\* children as they were and issues no Factory.Get.
C5_BadCallFails ==
  [][(calls' # calls /\
      ~(lastIn'.TypeOk /\ lastIn'.HasFactory /\ lastIn'.HasParent)) =>
       (lastErr' # "none" /\ parent' = parent /\ lastGets' = <<>>)]_vars

C5_Witness ==
  /\ lastErr = "expecting a TreeNode"
  /\ lastIn.TypeOk /\ lastIn.HasFactory /\ ~lastIn.HasParent
  /\ lastIn.Mentions > 0
  /\ Len(parent.Children) > 0

\* C6: every reference child has the namespace of the parent's ID, whatever
\* the namespace argument, and the Factory is queried under the child's ID.
C6_RefsInParentNamespace ==
  Rendered =>
    /\ \A i \in 1..Len(LastRoot.Children) :
         Namespaced(LastRoot.Children[i].ID)[1] = Namespaced(parent.ID)[1]
    /\ lastGets = [i \in 1..Len(LastRoot.Children) |->
                     [GVR |-> LastRoot.Children[i].GVR,
                      ID |-> LastRoot.Children[i].ID]]

C6_Witness ==
  /\ Rendered
  /\ lastIn.Ns # Namespaced(parent.ID)[1]
  /\ Namespaced(parent.ID)[1] # <<>>
  /\ Len(LastRoot.Children) = 2

(***************************************************************************)
(* Properties of CustomView.Load                                           *)
(***************************************************************************)
\* the last operation was a Load that read and parsed a document
LoadedDoc ==
  lastOp.Op = "Load" /\ lastOp.Stat # "NotExist" /\ lastOp.Read.Kind = "doc"

\* every registered listener was notified exactly once by the last operation
EachListenerOnce ==
  /\ Len(notified) = Cardinality(DOMAIN listeners)
  /\ \A g \in DOMAIN listeners :
       \E i \in 1..Len(notified) :
         /\ notified[i].Gvr = g
         /\ notified[i].Id = listeners[g].Id
         /\ \A j \in 1..Len(notified) : notified[j].Gvr = g => j = i

\* C7: a Load that read and parsed a document leaves Views equal to the
\* document's mapping (nothing of the old mapping is kept), and has notified
\* every registered listener exactly once with a setting computed by getVS
\* on the new mapping.
C7_LoadReplacesThenNotifies ==
  LoadedDoc =>
    /\ ~loadErr
    /\ Views = lastOp.Read.Views
    /\ EachListenerOnce
    /\ \A i \in 1..Len(notified) :
         notified[i].VS \in getVS(Views, notified[i].Gvr, notified[i].Ns)

\* a load that dropped a key, with two listeners, one of which got a setting
C7_Witness ==
  /\ LoadedDoc
  /\ lastOp.Dropped
  /\ Len(notified) = 2
  /\ \E i \in 1..Len(notified) : notified[i].VS # NilVS

\* C8: Load on a path that does not exist returns no error, leaves Views and
\* the listeners as they were and notifies nobody.
C8_MissingFileNoChange ==
  [][(lastOp'.Op = "Load" /\ lastOp'.Stat = "NotExist") =>
       (~loadErr' /\ Views' = Views /\ listeners' = listeners /\
        notified' = <<>>)]_vars

C8_Witness ==
  /\ lastOp.Op = "Load"
  /\ lastOp.Stat = "NotExist"
  /\ ~loadErr
  /\ DOMAIN Views # {}
  /\ DOMAIN listeners # {}

\* C9: Load on a file that is there but cannot be read, or does not parse,
\* returns an error, leaves Views as it was and notifies nobody.
C9_BadFileFails ==
  [][(lastOp'.Op = "Load" /\ lastOp'.Stat # "NotExist" /\
      lastOp'.Read.Kind \in {"err", "garbage"}) =>
       (loadErr' /\ Views' = Views /\ notified' = <<>>)]_vars

C9_Witness ==
  /\ lastOp.Op = "Load"
  /\ lastOp.Stat = "Ok"
  /\ lastOp.Read.Kind = "garbage"
  /\ loadErr
  /\ DOMAIN Views # {}
  /\ DOMAIN listeners # {}

\* C10: Load on a document that parses but that the schema rejects returns no
\* error, replaces Views with the document's mapping and notifies the
\* registered listeners.
C10_SchemaIsAdvisory ==
  (LoadedDoc /\ ~lastOp.Read.SchemaValid) =>
    /\ ~loadErr
    /\ Views = lastOp.Read.Views
    /\ {notified[i].Gvr : i \in 1..Len(notified)} = DOMAIN listeners

C10_Witness ==
  /\ LoadedDoc
  /\ ~lastOp.Read.SchemaValid
  /\ ~loadErr
  /\ DOMAIN Views # {}
  /\ Len(notified) > 0

(***************************************************************************)
(* Properties of the listeners                                             *)
(***************************************************************************)
\* the listener a notification went to
Notifiee(n) == [Id |-> n.Id, Ns |-> n.Ns]

\* C11: one listener per kind, the last one registered: AddListener(K, l)
\* leaves l registered for K, every notification goes to the listener that
\* is registered for its kind, no kind is notified twice by one operation,
\* and Load and Reset leave the listeners as they were.
C11_LastListenerWins ==
  [][/\ lastOp'.Op = "AddListener" => lastOp'.Gvr \in DOMAIN listeners' /\
                                      listeners'[lastOp'.Gvr] = lastOp'.L
     /\ lastOp'.Op \in {"Load", "Reset"} => listeners' = listeners
     /\ \A i \in 1..Len(notified') :
          /\ notified'[i].Gvr \in DOMAIN listeners'
          /\ Notifiee(notified'[i]) = listeners'[notified'[i].Gvr]
          /\ \A j \in 1..Len(notified') :
               notified'[j].Gvr = notified'[i].Gvr => j = i]_vars

\* a second listener registered for a kind that had one, and notified
C11_Witness ==
  /\ lastOp.Op = "AddListener"
  /\ lastOp.Was
  /\ \E i \in 1..Len(notified) :
       notified[i].Gvr = lastOp.Gvr /\ Notifiee(notified[i]) = lastOp.L

\* C12: AddListener(K, l) notifies l and every other registered listener,
\* each exactly once, before it returns.
C12_AddListenerNotifiesAll ==
  lastOp.Op = "AddListener" =>
    /\ EachListenerOnce
    /\ \E i \in 1..Len(notified) :
         notified[i].Gvr = lastOp.Gvr /\ Notifiee(notified[i]) = lastOp.L
    /\ \A g \in (DOMAIN listeners) \ {lastOp.Gvr} :
         \E i \in 1..Len(notified) :
           notified[i].Gvr = g /\ Notifiee(notified[i]) = listeners[g]

C12_Witness ==
  /\ lastOp.Op = "AddListener"
  /\ Cardinality(DOMAIN listeners) = 2
  /\ Len(notified) = 2

\* the kind of a view key: what stands before the first "@"
KeyKind(key) == Split(key, At)[1]

\* C14: a notification carries none, or the setting of a view key of the
\* notified listener's own kind.
C14_OwnKindOnly ==
  \A i \in 1..Len(notified) :
    \/ notified[i].VS = NilVS
    \/ \E key \in DOMAIN Views :
         KeyKind(key) = notified[i].Gvr /\ notified[i].VS = Ptr(Views[key])

\* C20: RemoveListener(K) notifies nobody, leaves Views and the other
\* listeners as they were and K without a listener; Load and AddListener
\* notify only kinds that were registered, or the kind being added.
C20_RemovedStaysSilent ==
  [][/\ lastOp'.Op = "RemoveListener" =>
          /\ notified' = <<>>
          /\ Views' = Views
          /\ DOMAIN listeners' = (DOMAIN listeners) \ {lastOp'.Gvr}
          /\ \A g \in DOMAIN listeners' : listeners'[g] = listeners[g]
     /\ lastOp'.Op \in {"Load", "AddListener"} =>
          \A i \in 1..Len(notified') :
            \/ notified'[i].Gvr \in DOMAIN listeners
            \/ lastOp'.Op = "AddListener" /\ notified'[i].Gvr = lastOp'.Gvr]_vars

\* a listener removed while another one stays and Views holds a setting
C20_Witness ==
  /\ lastOp.Op = "RemoveListener"
  /\ lastOp.Was
  /\ DOMAIN listeners # {}
  /\ DOMAIN Views # {}

(***************************************************************************)
(* Properties of the key matching                                          *)
(***************************************************************************)
\* the key getVS looks for
TargetKey(gvr, ns) == IF ns # <<>> THEN gvr \o <<At>> \o ns ELSE gvr

\* the keys of a registry that belong to a kind
KindKeys(vs, gvr) == {key \in DOMAIN vs : KeyKind(key) = gvr}

\* key is gvr@pattern and the pattern matches the target key
PatternMatches(key, gvr, ns) ==
  LET tt == Split(key, At)
  IN  /\ Len(tt) = 2
      /\ tt[1] = gvr
      /\ Compiles(tt[2])
      /\ MatchString(tt[2], TargetKey(gvr, ns))

\* C13: for a listener of kind K that reports a namespace N: the setting of
\* K@N when that is the only key of K, the setting of K@pattern when that
\* is the only key of K and the pattern matches, none when the registry has
\* neither K@N nor a K@pattern that matches.
C13_GetVSCases ==
  \A i \in 1..Len(notified) :
    LET n == notified[i]
        k == TargetKey(n.Gvr, n.Ns)
        mine == KindKeys(Views, n.Gvr)
    IN  n.Ns # <<>> =>
          /\ mine = {k} => n.VS = Ptr(Views[k])
          /\ \A key \in mine :
               mine = {key} /\ PatternMatches(key, n.Gvr, n.Ns) =>
                 n.VS = Ptr(Views[key])
          /\ (k \notin DOMAIN Views /\
              \A key \in DOMAIN Views : ~PatternMatches(key, n.Gvr, n.Ns)) =>
               n.VS = NilVS

\* C16: when the registry has the exact key K@N and a key K@pattern that
\* matches too, the listener gets the setting of the exact key.
C16_ExactBeatsPattern ==
  \A i \in 1..Len(notified) :
    LET n == notified[i]
        k == TargetKey(n.Gvr, n.Ns)
    IN  (/\ n.Ns # <<>>
         /\ k \in DOMAIN Views
         /\ \E key \in (DOMAIN Views) \ {k} :
              PatternMatches(key, n.Gvr, n.Ns)) =>
          n.VS = Ptr(Views[k])

\* C17: when the only key of kind K is the bare key K, a listener without a
\* namespace gets its setting and a listener with a namespace gets none.
C17_BareKeyOnlyForNoNamespace ==
  \A i \in 1..Len(notified) :
    LET n == notified[i]
    IN  KindKeys(Views, n.Gvr) = {n.Gvr} =>
          n.VS = (IF n.Ns = <<>> THEN Ptr(Views[n.Gvr]) ELSE NilVS)

(***************************************************************************)
(* Properties of concurrent reads                                          *)
(***************************************************************************)
\* C15: a range over Views that runs while the mapping is being changed
\* finds the whole mapping as it was before or the whole mapping as it is
\* after.
C15_ReadSeesWholeMapping ==
  seen.During = "deleting" => seen.Map \in {seen.Old, EmptyMap}

(***************************************************************************)
(* Properties of Render in steps                                           *)
(***************************************************************************)
\* the status Extra of a node, "none" when it has none
StatusOf(n) ==
  IF StatusKey \in DOMAIN n.Extras THEN n.Extras[StatusKey] ELSE "none"

\* the first mention of (gvr, id) in a list that mentions it
FirstMention(ms, gvr, id) ==
  ms[CHOOSE i \in 1..Len(ms) :
       /\ ms[i].GVR = gvr /\ ms[i].ID = id
       /\ \A j \in 1..(i - 1) : ~(ms[j].GVR = gvr /\ ms[j].ID = id)]

\* C18: within one Render an addRef for a reference the container's node
\* already holds issues no query and leaves the node as it is; an addRef
\* for a new reference issues one query and attaches one node; so the
\* status of every reference node is the one its first mention allows:
\* Ok or none when that mention is optional, Ok or MissingRef otherwise.
C18_FirstMentionDecides ==
  [][\A p \in Procs :
       /\ (rPc[p] = "refs" /\ rTodo[p] # <<>> /\ rTodo'[p] = Tail(rTodo[p])) =>
            LET m == Head(rTodo[p])
            IN  IF Find(rRoot[p], m.GVR, m.ID)
                THEN rRoot'[p] = rRoot[p] /\ rGets'[p] = rGets[p]
                ELSE /\ rGets'[p] = Append(rGets[p], [GVR |-> m.GVR, ID |-> m.ID])
                     /\ Len(rRoot'[p].Children) = Len(rRoot[p].Children) + 1
                     /\ Find(rRoot'[p], m.GVR, m.ID)
       /\ \A i \in 1..Len(rRoot'[p].Children) :
            LET c == rRoot'[p].Children[i]
                first == FirstMention(rMentions'[p], c.GVR, c.ID)
            IN  IF first.Optional = "true"
                THEN StatusOf(c) \in {"none", OkStatus}
                ELSE StatusOf(c) \in {MissingRefStatus, OkStatus}]_vars

\* a missing secret, mentioned as optional first and as required later,
\* queried once and left without a status
C18_Witness ==
  /\ rPc[1] = "done"
  /\ Len(rGets[1]) = 1
  /\ Len(rRoot[1].Children) = 1
  /\ StatusOf(rRoot[1].Children[1]) = "none"
  /\ \E i, j \in 1..Len(rMentions[1]) :
       /\ i < j
       /\ rMentions[1][i].GVR = rMentions[1][j].GVR
       /\ rMentions[1][i].ID = rMentions[1][j].ID
       /\ rMentions[1][i].Optional = "true"
       /\ rMentions[1][j].Optional # "true"

\* the references a call has to attach
MentionIds(ms) == {<<ms[i].GVR, ms[i].ID>> : i \in 1..Len(ms)}

\* C19: every child of the parent is the node of a call that has visited
\* all the references of its container, and holds a node for each of them,
\* whatever the other calls on the same parent are doing.
C19_AttachedAfterRefs ==
  \A i \in 1..Len(parent.Children) :
    \E p \in Procs :
      /\ rPc[p] = "done"
      /\ parent.Children[i] = rRoot[p]
      /\ rTodo[p] = <<>>
      /\ ChildIds(rRoot[p]) = MentionIds(rMentions[p])

\* one call has attached its node, with a reference, while the other call
\* is still visiting its references
C19_Witness ==
  /\ Len(parent.Children) = 1
  /\ Len(parent.Children[1].Children) > 0
  /\ \E p \in Procs : rPc[p] = "refs" /\ rTodo[p] # <<>>

====
